---- MODULE Spec2Model ----
(***************************************************************************)
(* Model of src/app.py: FinancialEngine (fetch_data, get_market_overview,  *)
(* run_monte_carlo_var) and the run_btn script that loops over a batch of  *)
(* tickers.                                                                *)
(*                                                                         *)
(* Numbers.  The code computes in IEEE floating point.  The model computes *)
(* in exact rationals extended with NaN and +/-infinity: a value is a      *)
(* record [n, d] with d >= 0, where d = 0 /\ n = 0 is NaN and d = 0 /\     *)
(* n # 0 is an infinity of the sign of n.  Comparisons with NaN are FALSE, *)
(* x/0 is an infinity and 0/0 is NaN, as in numpy/pandas.  Rounding error  *)
(* of the floating-point operations is not modelled.                       *)
(*                                                                         *)
(* Strings.  The Chinese/English labels of the code are abbreviated:       *)
(*   rating   "Underweight" = "減持 / 賣出 (Underweight)"                   *)
(*            "Overweight"  = "增持 / 買入 (Overweight)"                    *)
(*            "Neutral"     = "中立 / 止盈 (Neutral)"                       *)
(*            "Hold"        = "持有 (Hold)"                                 *)
(*   trend    "Range" = "區間震盪", "Bearish" = "空頭排列 (Bearish)",       *)
(*            "BullishPullback" = "多頭回測 (Bullish Pullback)",            *)
(*            "Overbought" = "多頭過熱 (Overbought)",                       *)
(*            "BullishTrend" = "多頭行進 (Bullish Trend)"                   *)
(*   strategy "Wait" = "中立觀望", "CapitalPreservation", "Accumulate",     *)
(*            "ProfitTaking", "TrendFollowing"                             *)
(* The colour, execution and defense texts are fixed per branch and follow *)
(* the strategy; change_pct and atr_pct are displayed only and are read by *)
(* no rule, so the model leaves them out of the returned record.           *)
(***************************************************************************)
EXTENDS Integers, Sequences, FiniteSets, TLC

VARIABLES
    tickers,        \* the batch: tickers = [x.strip() for x in user_input.split(',')]
    tab,            \* position of the script: "idle", "tab1", "done", "aborted"
    k,              \* index in tickers of the ticker the current loop is at
    df,             \* what fetch_data returned for the last ticker (None or a frame)
    data,           \* what get_market_overview returned for the last frame fetched
    shown,          \* the tickers (indices) a card was rendered for
    visited,        \* the tickers (indices) the loop has reached
    fetched,        \* what yf.download did for each ticker reached: [raised, bars]
    mc              \* the frame of run_monte_carlo_var (its arguments and locals)

vars == <<tickers, tab, k, df, data, shown, visited, fetched, mc>>

-----------------------------------------------------------------------------
(* Bounds of the model *)

MaxTickers == 3         \* a batch has 1..MaxTickers tickers
MaxSims == 2            \* simulations argument of run_monte_carlo_var: 1..MaxSims
MaxDraws == 2           \* simulations * num_blocks of one call is at most MaxDraws

(* Program constants *)

MinBars == 200          \* fetch_data: if len(df) < 200: return None
MaWindow == 20          \* close.rolling(20)
MaLongWindow == 60      \* close.rolling(60)
RsiWindow == 14         \* rolling(14) of gain and loss
PullbackBias == 8       \* if bias_20 < 8
SellBias == 15          \* elif bias_20 > 15
BlockSize == 5          \* block_size = 5

-----------------------------------------------------------------------------
(* Extended rationals *)

Abs(x) == IF x < 0 THEN -x ELSE x

Sign(x) == IF x < 0 THEN -1 ELSE IF x > 0 THEN 1 ELSE 0

RECURSIVE Gcd(_, _)
Gcd(a, b) == IF b = 0 THEN a ELSE Gcd(b, a % b)

NaN == [n |-> 0, d |-> 0]

Inf(s) == [n |-> s, d |-> 0]

Rat(n, d) ==
    IF d = 0 THEN [n |-> Sign(n), d |-> 0]
    ELSE LET g == Gcd(Abs(n), Abs(d))
             s == Sign(d)
         IN  [n |-> (s * n) \div g, d |-> (s * d) \div g]

FromInt(x) == [n |-> x, d |-> 1]

IsNaN(a) == a.d = 0 /\ a.n = 0

IsInf(a) == a.d = 0 /\ a.n # 0

IsZero(a) == a.d # 0 /\ a.n = 0

RAdd(a, b) ==
    IF IsNaN(a) \/ IsNaN(b) THEN NaN
    ELSE IF IsInf(a) /\ IsInf(b) THEN (IF a.n = b.n THEN a ELSE NaN)
    ELSE IF IsInf(a) THEN a
    ELSE IF IsInf(b) THEN b
    ELSE Rat(a.n * b.d + b.n * a.d, a.d * b.d)

RNeg(a) == [n |-> -a.n, d |-> a.d]

RSub(a, b) == RAdd(a, RNeg(b))

RMul(a, b) ==
    IF IsNaN(a) \/ IsNaN(b) THEN NaN
    ELSE IF IsInf(a) \/ IsInf(b)
         THEN (IF IsZero(a) \/ IsZero(b) THEN NaN ELSE Inf(Sign(a.n) * Sign(b.n)))
    ELSE Rat(a.n * b.n, a.d * b.d)

RDiv(a, b) ==
    IF IsNaN(a) \/ IsNaN(b) THEN NaN
    ELSE IF IsInf(b) THEN (IF IsInf(a) THEN NaN ELSE FromInt(0))
    ELSE IF IsZero(b) THEN (IF IsZero(a) THEN NaN ELSE Inf(Sign(a.n)))
    ELSE IF IsInf(a) THEN Inf(Sign(a.n) * Sign(b.n))
    ELSE Rat(a.n * b.d, a.d * b.n)

RLt(a, b) ==
    /\ ~IsNaN(a)
    /\ ~IsNaN(b)
    /\ IF IsInf(a) /\ IsInf(b) THEN a.n < b.n ELSE a.n * b.d < b.n * a.d

RGt(a, b) == RLt(b, a)

RLe(a, b) == ~IsNaN(a) /\ ~IsNaN(b) /\ ~RLt(b, a)

RGe(a, b) == RLe(b, a)

-----------------------------------------------------------------------------
(* The downloaded frame.  A frame is the sequence of its closes, oldest    *)
(* first; a close is a positive integer (the price in ticks) or 0, which   *)
(* stands for a missing close (NaN in the DataFrame).  None stands for     *)
(* Python's None.                                                          *)

None == <<>>

Close(f, t) == IF f[t] = 0 THEN NaN ELSE FromInt(f[t])

(* close.iloc[-j] *)
ILoc(f, j) == Close(f, Len(f) + 1 - j)

-----------------------------------------------------------------------------
(* Inputs: the series the data provider can hand back.  A series of n bars *)
(* is flat at 25 up to the last MaLongWindow bars, flat at level b up to   *)
(* the last MaWindow bars, flat at 25 up to its tail, and ends in one of   *)
(* Tails; at most one close is missing (position hole from the end, 0 for  *)
(* none).  A sparse series has only its last m closes present.             *)

Levels == {20, 30}

Tails == {
    <<25, 25, 25>>,     \* flat: all deltas of the RSI window are 0
    <<25, 25, 24>>,     \* price < MA20
    <<25, 25, 26>>,     \* price > MA20, bias < 8, no loss in the window
    <<23, 25, 27>>,     \* MA20 = 25, price = 27: bias = 8 exactly
    <<24, 25, 28>>,     \* 8 < bias <= 15, one loss: RSI = 80
    <<25, 25, 29>>,     \* 15 < bias, no loss
    <<24, 26, 25>>,     \* price = MA20
    <<30, 25, 26>>,     \* a gain, a loss, a gain: 0 < RSI < 100
    <<25, 24, 30>>,     \* 15 < bias < 20, one loss: RSI > 80
    <<60, 60, 60, 60, 60, 20, 20, 20, 20, 20, 20, 20, 20, 20, 20, 20, 20, 20, 22, 30>> }
                        \* price < MA20 after a fall, RSI = 100

Holes == {0, 1, 30}

Series(n, b, tail, hole) ==
    [t \in 1..n |->
        IF hole # 0 /\ t = n + 1 - hole THEN 0
        ELSE IF t > n - Len(tail) THEN tail[t - (n - Len(tail))]
        ELSE IF t > n - MaWindow THEN 25
        ELSE IF t > n - MaLongWindow THEN b
        ELSE 25]

Sparse(n, m) == [t \in 1..n |-> IF t > n - m THEN 25 + (t % 2) ELSE 0]

Lengths == {MinBars, MinBars + 1}

LongSeries ==
    {Series(n, b, tail, hole) : n \in Lengths, b \in Levels, tail \in Tails, hole \in Holes}
        \cup {Sparse(MinBars, 4)}

ShortSeries == {<<>>, Series(MinBars - 1, 30, <<25, 25, 24>>, 0)}

(* What yf.download does: it raises, or it returns a frame (an empty one   *)
(* when the provider has nothing for the ticker).                          *)
Downloads ==
    {[raised |-> TRUE, frame |-> <<>>]}
        \cup {[raised |-> FALSE, frame |-> s] : s \in ShortSeries \cup LongSeries}

-----------------------------------------------------------------------------
(* FinancialEngine.fetch_data.  The result is [exc, val]: exc says that an *)
(* exception leaves the call, val is the returned value.                   *)

fetch_data_propagating(dl) ==
    IF dl.raised THEN [exc |-> TRUE, val |-> None]
    ELSE IF Len(dl.frame) < MinBars THEN [exc |-> FALSE, val |-> None]
    ELSE [exc |-> FALSE, val |-> dl.frame]

fetch_data(dl) ==
    IF dl.raised THEN [exc |-> FALSE, val |-> None]                 \* except: return None
    ELSE IF Len(dl.frame) < MinBars THEN [exc |-> FALSE, val |-> None]
    ELSE [exc |-> FALSE, val |-> dl.frame]

-----------------------------------------------------------------------------
(* Indicators of get_market_overview *)

RECURSIVE SumInts(_, _, _)
SumInts(f, lo, hi) == IF lo > hi THEN 0 ELSE f[lo] + SumInts(f, lo + 1, hi)

(* close.rolling(w).mean().iloc[-1]: NaN unless the frame has w bars and   *)
(* the last w closes are all present.                                      *)
RollingMeanLast(f, w) ==
    IF Len(f) < w THEN NaN
    ELSE IF \E t \in (Len(f) - w + 1)..Len(f) : f[t] = 0 THEN NaN
    ELSE Rat(SumInts(f, Len(f) - w + 1, Len(f)), w)

(* delta = close.diff() at bar t *)
Delta(f, t) == IF t <= 1 THEN NaN ELSE RSub(Close(f, t), Close(f, t - 1))

(* delta.where(delta > 0, 0) and -delta.where(delta < 0, 0) at bar t: a    *)
(* NaN delta fails the condition and is replaced by 0.                     *)
GainAt(f, t) == IF RGt(Delta(f, t), FromInt(0)) THEN Delta(f, t) ELSE FromInt(0)

LossAt(f, t) == IF RLt(Delta(f, t), FromInt(0)) THEN RNeg(Delta(f, t)) ELSE FromInt(0)

RECURSIVE SumGain(_, _, _)
SumGain(f, lo, hi) == IF lo > hi THEN FromInt(0) ELSE RAdd(GainAt(f, lo), SumGain(f, lo + 1, hi))

RECURSIVE SumLoss(_, _, _)
SumLoss(f, lo, hi) == IF lo > hi THEN FromInt(0) ELSE RAdd(LossAt(f, lo), SumLoss(f, lo + 1, hi))

(* gain = (...).rolling(14).mean() at the last bar *)
AvgGain(f) ==
    IF Len(f) < RsiWindow THEN NaN
    ELSE RDiv(SumGain(f, Len(f) - RsiWindow + 1, Len(f)), FromInt(RsiWindow))

AvgLoss(f) ==
    IF Len(f) < RsiWindow THEN NaN
    ELSE RDiv(SumLoss(f, Len(f) - RsiWindow + 1, Len(f)), FromInt(RsiWindow))

(* rs = gain / loss; rsi = 100 - (100 / (1 + rs)).iloc[-1].  (In floating  *)
(* point a zero loss is -0.0 and a positive gain over it is -inf; either   *)
(* infinity gives 100 / (1 + rs) = 0 and rsi = 100, as here.)              *)
Rsi(f) ==
    LET rs == RDiv(AvgGain(f), AvgLoss(f))
    IN  RSub(FromInt(100), RDiv(FromInt(100), RAdd(FromInt(1), rs)))

(* bias_20 = ((price - ma20) / ma20) * 100 *)
Bias(price, ma20) == RMul(RDiv(RSub(price, ma20), ma20), FromInt(100))

-----------------------------------------------------------------------------
(* The rule cascade of get_market_overview *)

(* if price < ma20 *)
IsBearish_aligned(price, ma20, ma60) == RLt(price, ma20) /\ RLt(ma20, ma60)

IsBearish(price, ma20, ma60) == RLt(price, ma20)

(* elif price > ma20 and ma20 > ma60 *)
IsBullish(price, ma20, ma60) == RGt(price, ma20) /\ RGt(ma20, ma60)

(* if bias_20 < 8 *)
IsPullback_inclusive(bias) == RLe(bias, FromInt(PullbackBias))

IsPullback(bias) == RLt(bias, FromInt(PullbackBias))

(* elif bias_20 > 15 *)
IsOverheated_wide(bias) == RGt(bias, FromInt(SellBias + 5))

IsOverheated(bias) == RGt(bias, FromInt(SellBias))

Classify(price, ma20, ma60, bias) ==
    IF IsBearish(price, ma20, ma60)
    THEN [rating |-> "Underweight", trend |-> "Bearish", strategy |-> "CapitalPreservation"]
    ELSE IF IsBullish(price, ma20, ma60)
    THEN IF IsPullback(bias)
         THEN [rating |-> "Overweight", trend |-> "BullishPullback", strategy |-> "Accumulate"]
         ELSE IF IsOverheated(bias)
         THEN [rating |-> "Neutral", trend |-> "Overbought", strategy |-> "ProfitTaking"]
         ELSE [rating |-> "Hold", trend |-> "BullishTrend", strategy |-> "TrendFollowing"]
    ELSE [rating |-> "Hold", trend |-> "Range", strategy |-> "Wait"]

get_market_overview(f) ==
    LET price == ILoc(f, 1)
        ma20 == RollingMeanLast(f, MaWindow)
        ma60 == RollingMeanLast(f, MaLongWindow)
        bias_20 == Bias(price, ma20)
        rsi == Rsi(f)
        c == Classify(price, ma20, ma60, bias_20)
    IN  [price |-> price, ma20 |-> ma20, rsi |-> rsi, bias |-> bias_20,
         rating |-> c.rating, trend |-> c.trend, strategy |-> c.strategy]

(* get_market_overview tabulated over the frames fetch_data can return *)
Overview == [f \in LongSeries |-> get_market_overview(f)]

NoData ==
    [price |-> NaN, ma20 |-> NaN, rsi |-> NaN, bias |-> NaN,
     rating |-> "", trend |-> "", strategy |-> ""]

-----------------------------------------------------------------------------
(* FinancialEngine.run_monte_carlo_var *)

Min(a, b) == IF a < b THEN a ELSE b

(* df['Close'].pct_change() at bar t >= 2.  pandas before 3.0 forward-     *)
(* fills missing closes first (fill_method='pad'), pandas 3.0 does not:    *)
(* fill is "pad" or "none", whichever the installed pandas does.           *)
Padded(f, t) ==
    IF f[t] # 0 THEN f[t]
    ELSE LET prior == {u \in 1..t : f[u] # 0}
         IN  IF prior = {} THEN 0
             ELSE f[CHOOSE u \in prior : \A v \in prior : v <= u]

PctChange(f, t, fill) ==
    LET cur == IF fill = "pad" THEN Padded(f, t) ELSE f[t]
        prev == IF fill = "pad" THEN Padded(f, t - 1) ELSE f[t - 1]
    IN  IF cur = 0 \/ prev = 0 THEN NaN ELSE RSub(Rat(cur, prev), FromInt(1))

(* returns = df['Close'].pct_change().dropna().values *)
RECURSIVE ReturnsRange(_, _, _, _)
ReturnsRange(f, lo, hi, fill) ==
    IF lo > hi THEN <<>>
    ELSE IF lo = hi
    THEN (IF IsNaN(PctChange(f, lo, fill)) THEN <<>> ELSE <<PctChange(f, lo, fill)>>)
    ELSE LET mid == (lo + hi) \div 2
         IN  ReturnsRange(f, lo, mid, fill) \o ReturnsRange(f, mid + 1, hi, fill)

Returns(f, fill) == ReturnsRange(f, 2, Len(f), fill)

(* np.zeros((simulations, days)) *)
Zeros(simulations, days) ==
    [r \in 1..simulations |-> [c \in 1..days |-> FromInt(0)]]

(* the exclusive upper bound of np.random.randint(0, len(returns) - block_size) *)
DrawHigh_full(returns) == Len(returns)

DrawHigh_inclusive(returns) == Len(returns) - BlockSize + 1

DrawHigh(returns) == Len(returns) - BlockSize

(* returns[start_idx : start_idx + block_size]: a Python slice, clipped to *)
(* the array; start_idx counts from 0.                                     *)
Slice(returns, start_idx) ==
    SubSeq(returns, start_idx + 1, Min(start_idx + BlockSize, Len(returns)))

(* num_blocks = days // block_size *)
NumBlocks(days) == days \div BlockSize

(* last_price * np.cumprod(1 + np.array(path_returns)) *)
RECURSIVE CumProd(_, _, _)
CumProd(rs, j, acc) ==
    IF j > Len(rs) THEN <<>>
    ELSE LET nxt == RMul(acc, RAdd(FromInt(1), rs[j]))
         IN  <<nxt>> \o CumProd(rs, j + 1, nxt)

PricePath(last_price, path_returns) ==
    LET cp == CumProd(path_returns, 1, FromInt(1))
    IN  [j \in 1..Len(cp) |-> RMul(last_price, cp[j])]

(* sim_paths[i] = <array>: numpy copies an array of the row's length and   *)
(* broadcasts one of length 1; any other length raises ValueError.         *)
AssignRow_padding(row, days) ==
    [ok |-> TRUE, value |-> [c \in 1..days |-> IF c <= Len(row) THEN row[c] ELSE FromInt(0)]]

AssignRow(row, days) ==
    IF Len(row) = days THEN [ok |-> TRUE, value |-> row]
    ELSE IF Len(row) = 1 THEN [ok |-> TRUE, value |-> [c \in 1..days |-> row[1]]]
    ELSE [ok |-> FALSE, value |-> <<>>]

(* np.percentile(final_prices, 5), linear interpolation *)
RECURSIVE SortAsc(_)
SortAsc(xs) ==
    IF Len(xs) = 0 THEN <<>>
    ELSE LET m == CHOOSE j \in 1..Len(xs) : \A l \in 1..Len(xs) : ~RLt(xs[l], xs[j])
             rest == [l \in 1..(Len(xs) - 1) |-> IF l < m THEN xs[l] ELSE xs[l + 1]]
         IN  <<xs[m]>> \o SortAsc(rest)

Percentile5(xs) ==
    IF \E j \in 1..Len(xs) : IsNaN(xs[j]) THEN NaN
    ELSE LET srt == SortAsc(xs)
             n == Len(xs)
             lo == (5 * (n - 1)) \div 100
             frac == Rat(5 * (n - 1) - 100 * lo, 100)
         IN  IF lo + 2 > n THEN srt[lo + 1]
             ELSE RAdd(srt[lo + 1], RMul(frac, RSub(srt[lo + 2], srt[lo + 1])))

(* the four lines after the loop; final_prices = sim_paths[:, -1] *)
Summary(sim_paths, last_price, simulations) ==
    LET final_prices == [r \in 1..simulations |-> sim_paths[r][Len(sim_paths[r])]]
        p5 == Percentile5(final_prices)
        wins == Cardinality({r \in 1..simulations : RGt(final_prices[r], last_price)})
    IN  [p5 |-> p5,
         max_dd |-> RMul(RDiv(RSub(p5, last_price), last_price), FromInt(100)),
         win_rate |-> RMul(Rat(wins, simulations), FromInt(100))]

NoResult == [p5 |-> NaN, max_dd |-> NaN, win_rate |-> NaN]

(* The frame of a call: pc is "idle" (no call), "call" (entered), "path"   *)
(* (inside for i in range(simulations)), "summary" (after the loop),       *)
(* "returned" or "raised".  start_idx is -1 until the first draw.          *)
McIdle ==
    [pc |-> "idle", df |-> None, simulations |-> 0, days |-> 0, fill |-> "pad",
     returns |-> <<>>, last_price |-> NaN, num_blocks |-> 0, i |-> 0, blk |-> 0,
     start_idx |-> -1, path_returns |-> <<>>, sim_paths |-> <<>>, result |-> NoResult]

(* lines 204-208 and the first path_returns = [] *)
McEnter ==
    /\ mc.pc = "call"
    /\ mc' = [mc EXCEPT !.pc = "path",
                        !.returns = Returns(mc.df, mc.fill),
                        !.last_price = ILoc(mc.df, 1),
                        !.sim_paths = Zeros(mc.simulations, mc.days),
                        !.num_blocks = NumBlocks(mc.days),
                        !.i = 0, !.blk = 0, !.path_returns = <<>>]
    /\ UNCHANGED <<tickers, tab, k, df, data, shown, visited, fetched>>

(* one pass of for _ in range(num_blocks): lines 213-214 *)
McDraw ==
    /\ mc.pc = "path"
    /\ mc.blk < mc.num_blocks
    /\ IF DrawHigh(mc.returns) <= 0
       THEN mc' = [mc EXCEPT !.pc = "raised"]       \* randint: low >= high
       ELSE \E s \in 0..(DrawHigh(mc.returns) - 1) :
                mc' = [mc EXCEPT !.start_idx = s,
                                 !.path_returns = mc.path_returns \o Slice(mc.returns, s),
                                 !.blk = mc.blk + 1]
    /\ UNCHANGED <<tickers, tab, k, df, data, shown, visited, fetched>>

(* line 215, and the step to the next i *)
McAssign ==
    /\ mc.pc = "path"
    /\ mc.blk = mc.num_blocks
    /\ LET a == AssignRow(PricePath(mc.last_price, mc.path_returns), mc.days)
       IN  IF ~a.ok
           THEN mc' = [mc EXCEPT !.pc = "raised"]   \* could not broadcast input array
           ELSE IF mc.i + 1 < mc.simulations
           THEN mc' = [mc EXCEPT !.sim_paths[mc.i + 1] = a.value,
                                 !.i = mc.i + 1, !.blk = 0, !.path_returns = <<>>]
           ELSE mc' = [mc EXCEPT !.sim_paths[mc.i + 1] = a.value, !.pc = "summary"]
    /\ UNCHANGED <<tickers, tab, k, df, data, shown, visited, fetched>>

(* lines 217-222 *)
McSummary ==
    /\ mc.pc = "summary"
    /\ IF mc.days = 0
       THEN mc' = [mc EXCEPT !.pc = "raised"]       \* sim_paths[:, -1]: IndexError
       ELSE mc' = [mc EXCEPT !.pc = "returned",
                             !.result = Summary(mc.sim_paths, mc.last_price, mc.simulations)]
    /\ UNCHANGED <<tickers, tab, k, df, data, shown, visited, fetched>>

-----------------------------------------------------------------------------
(* The run_btn script, the loop of tab1 over the batch.  A call that lets  *)
(* an exception out ends the script ("aborted").  The loop of tab2 fetches *)
(* and skips in the same way and then calls run_monte_carlo_var, which the *)
(* Mc actions model under SpecMC.                                          *)

Names == <<"2330", "2317", "0050">>

Batches == {[j \in 1..n |-> Names[((j - 1) % Len(Names)) + 1]] : n \in 1..MaxTickers}

Init ==
    /\ tickers \in Batches
    /\ tab = "tab1"
    /\ k = 1
    /\ df = None
    /\ data = NoData
    /\ shown = {}
    /\ visited = {}
    /\ fetched = <<>>
    /\ mc = McIdle

(* one pass of for ticker in tickers: lines 247-293 *)
Tab1Ticker ==
    /\ tab = "tab1"
    /\ k <= Len(tickers)
    /\ \E dl \in Downloads :
         LET r == fetch_data(dl)
         IN  /\ fetched' = Append(fetched, [raised |-> dl.raised, bars |-> Len(dl.frame)])
             /\ visited' = visited \cup {k}
             /\ IF r.exc
                THEN /\ tab' = "aborted"
                     /\ UNCHANGED <<k, df, data, shown>>
                ELSE /\ df' = r.val
                     /\ IF r.val # None
                        THEN /\ data' = Overview[r.val]   \* engine.get_market_overview(df)
                             /\ shown' = shown \cup {k}
                        ELSE UNCHANGED <<data, shown>>
                     /\ k' = k + 1
                     /\ tab' = tab
    /\ UNCHANGED <<tickers, mc>>

(* the loop is exhausted *)
Tab1End ==
    /\ tab = "tab1"
    /\ k > Len(tickers)
    /\ tab' = "done"
    /\ UNCHANGED <<tickers, k, df, data, shown, visited, fetched, mc>>

Next == Tab1Ticker \/ Tab1End

Spec == Init /\ [][Next]_vars

-----------------------------------------------------------------------------
(* run_monte_carlo_var called on its own: the frame is one fetch_data      *)
(* accepts, simulations and days are drawn from small sets.                *)

DaysSet == {0, 3, 5, 7, 10}

(* a complete series, one with a close missing in the middle, one with its *)
(* first close missing, and two sparse ones                                *)
McSeries ==
    {Series(MinBars, 25, <<24, 25, 28>>, 0),
     Series(MinBars, 25, <<25, 24, 30>>, 100),
     Series(MinBars + 1, 25, <<25, 25, 25>>, MinBars + 1),
     Sparse(MinBars, 4),
     Sparse(MinBars, 8)}

McFrames == {f \in McSeries : fetch_data([raised |-> FALSE, frame |-> f]).val # None}

InitMC ==
    /\ tickers = <<>>
    /\ tab = "idle"
    /\ k = 1
    /\ df = None
    /\ data = NoData
    /\ shown = {}
    /\ visited = {}
    /\ fetched = <<>>
    /\ \E f \in McFrames, sims \in 1..MaxSims, days \in DaysSet, fill \in {"pad", "none"} :
         /\ sims * NumBlocks(days) <= MaxDraws
         /\ mc = [McIdle EXCEPT !.pc = "call", !.df = f, !.simulations = sims,
                                !.days = days, !.fill = fill]

NextMC == McEnter \/ McDraw \/ McAssign \/ McSummary

SpecMC == InitMC /\ [][NextMC]_vars

-----------------------------------------------------------------------------
(* Properties of the rule cascade, checked under Spec.  Rendered says that *)
(* the last pass got a frame, so that data is get_market_overview of df.   *)

Rendered == df # None

Ma60 == RollingMeanLast(df, MaLongWindow)

BelowMa20 == RLt(data.price, data.ma20)

Bullish == RGt(data.price, data.ma20) /\ RGt(data.ma20, Ma60)

(* C1: every latest bar with price < MA20 is rated sell/exit (Underweight, *)
(* trend Bearish), whatever MA60, bias and RSI are.                        *)
C1_SellDominates ==
    (Rendered /\ BelowMa20) => (data.rating = "Underweight" /\ data.trend = "Bearish")

C1_Witness ==
    /\ Rendered
    /\ BelowMa20
    /\ RGt(data.ma20, Ma60)
    /\ RGt(data.rsi, FromInt(80))
    /\ data.rating = "Underweight"

(* C2 as stated: with price >= MA20, bias% > 15 or RSI > 80 gives the      *)
(* take-profit rating (Neutral), whatever the relation of MA20 and MA60,   *)
(* so that RSI > 80 is never rated BUY.                                    *)
C2_TakeProfitAnyTrend ==
    (Rendered /\ RGe(data.price, data.ma20)
        /\ (RGt(data.bias, FromInt(15)) \/ RGt(data.rsi, FromInt(80))))
    => data.rating = "Neutral"

(* C2 amended: with price >= MA20 the rating is take-profit exactly when   *)
(* the structure is bullish (price > MA20 > MA60) and bias% > 15; RSI is   *)
(* no trigger, and without bullish structure the result is the default     *)
(* (Hold, trend Range, strategy Wait) whatever bias% and RSI are.          *)
C2_TakeProfitBullishOnly ==
    (Rendered /\ RGe(data.price, data.ma20)) =>
        /\ data.rating = "Neutral" <=> (Bullish /\ RGt(data.bias, FromInt(15)))
        /\ ~Bullish =>
             (data.rating = "Hold" /\ data.trend = "Range" /\ data.strategy = "Wait")

C2_Witness ==
    /\ Rendered
    /\ Bullish
    /\ RGt(data.bias, FromInt(15))
    /\ RLt(data.bias, FromInt(20))
    /\ data.rating = "Neutral"
    /\ data.trend = "Overbought"

(* C4: when MA20 or MA60 of the latest bar is NaN the result is the        *)
(* default WAIT (strategy Wait, trend Range), never sell, buy, take-profit *)
(* or bullish hold.                                                        *)
C4_UndefinedFallsBackToWait ==
    (Rendered /\ (IsNaN(data.ma20) \/ IsNaN(Ma60))) =>
        (data.strategy = "Wait" /\ data.trend = "Range" /\ data.rating = "Hold")

(* C6: the RSI is a defined value in [0, 100], and it is 100 whenever the  *)
(* average loss of the window is 0, all deltas being zero included.        *)
C6_RsiDefined ==
    Rendered =>
        /\ ~IsNaN(data.rsi)
        /\ RLe(FromInt(0), data.rsi)
        /\ RLe(data.rsi, FromInt(100))
        /\ IsZero(AvgLoss(df)) => data.rsi = FromInt(100)

(* C7: with bullish structure and no take-profit trigger (bias% <= 15) the *)
(* rating is BUY (Overweight) exactly when bias% < 8 and HOLD (Hold, trend *)
(* BullishTrend) exactly when bias% >= 8; bias% = 8 is HOLD.               *)
C7_BuyBelowEightHoldFromEight ==
    (Rendered /\ Bullish /\ RLe(data.bias, FromInt(15))) =>
        /\ data.rating = "Overweight" <=> RLt(data.bias, FromInt(8))
        /\ (data.rating = "Hold" /\ data.trend = "BullishTrend") <=> RGe(data.bias, FromInt(8))

C7_Witness ==
    /\ Rendered
    /\ Bullish
    /\ data.bias = FromInt(8)
    /\ data.rating = "Hold"
    /\ data.trend = "BullishTrend"

-----------------------------------------------------------------------------
(* Properties of the batch loop, checked under Spec *)

Failed(j) == fetched[j].raised \/ fetched[j].bars < MinBars

(* C3: a ticker whose fetch raises and a ticker with fewer than 200 bars   *)
(* are both skipped (fetch_data gives None, no card), and the loop goes on *)
(* to every remaining ticker: it never aborts, and when it is done it has  *)
(* reached every ticker and rendered exactly those whose fetch succeeded.  *)
C3_FailuresSkipped ==
    /\ tab # "aborted"
    /\ visited = 1..Len(fetched)
    /\ tab = "tab1" => Len(fetched) = k - 1
    /\ tab = "done" => visited = 1..Len(tickers)
    /\ \A j \in visited : Failed(j) <=> j \notin shown
    /\ (visited # {} /\ Failed(Len(fetched))) => df = None

C3_Witness ==
    /\ tab = "done"
    /\ Len(tickers) = 3
    /\ fetched[1].raised
    /\ ~fetched[2].raised /\ fetched[2].bars = MinBars - 1
    /\ shown = {3}

-----------------------------------------------------------------------------
(* Properties of run_monte_carlo_var, checked under SpecMC *)

Entered == mc.pc \notin {"idle", "call"}

Drawn == mc.start_idx # -1

(* C5 as stated: with days not a multiple of block_size the call does not  *)
(* raise, it completes on paths of num_blocks * block_size days.           *)
C5_ShortHorizonCompletes ==
    (Entered /\ mc.days % BlockSize # 0) => mc.pc # "raised"

(* C5 amended: with simulations >= 1 and days not a multiple of block_size *)
(* num_blocks is the floor of days / block_size and the remainder days are *)
(* not simulated, but the call never completes: the first path, of         *)
(* num_blocks * block_size returns, does not fit its row of days columns   *)
(* and the assignment raises, so nothing is returned.                      *)
C5_ShortHorizonRaises ==
    (Entered /\ mc.days % BlockSize # 0) =>
        /\ mc.num_blocks * BlockSize <= mc.days
        /\ mc.days < (mc.num_blocks + 1) * BlockSize
        /\ mc.pc \in {"path", "raised"}
        /\ mc.i = 0
        /\ mc.result = NoResult
        /\ (mc.pc = "raised" /\ Len(mc.returns) > BlockSize) =>
             (Len(mc.path_returns) = mc.num_blocks * BlockSize
                /\ Len(mc.path_returns) < mc.days)

C5_Witness ==
    /\ mc.pc = "raised"
    /\ mc.days = 7
    /\ mc.num_blocks = 1
    /\ Len(mc.path_returns) = BlockSize
    /\ mc.simulations = 2

C10_LastReturnNeverDrawn ==
    Drawn => (mc.start_idx + BlockSize) - 1 <= Len(mc.returns) - 2

C10_Witness ==
    /\ Drawn
    /\ mc.pc = "returned"
    /\ mc.simulations = 2
    /\ mc.start_idx = Len(mc.returns) - BlockSize - 1

====
